---- MODULE Spec2Model ----
(***************************************************************************)
(* Model of the SQL Visualizer (src/app.py): the execution-trace builder   *)
(* generate_execution_trace, the descriptive clause split parse_sql_steps, *)
(* and the Run Query handler with its playback loop and query history.     *)
(*                                                                         *)
(* A query is a sequence of lexical tokens.  A token is a maximal run of   *)
(* word characters (\w+), a single whitespace character, or a single       *)
(* punctuation character.  Every regular expression of the source only     *)
(* anchors on word boundaries, whitespace runs and literal punctuation, so *)
(* matching over tokens is matching over characters.                       *)
(***************************************************************************)
EXTENDS Integers, Sequences, FiniteSets, TLC

VARIABLES
    query,      \* the editor's text, st.session_state["query"]
    typed,      \* fragments typed so far in the session
    history,    \* st.session_state.history
    conn,       \* the database the last run connected to
    pc,         \* "edit", or how the last call or run ended
    trace,      \* generate_execution_trace's results: trace, df_base, df_agg
    tbl,        \* ... and the table name it read
    df_base,
    df_agg,
    steps,      \* parse_sql_steps's result
    code_ph,    \* what the two placeholders show
    table_ph,
    rendered    \* every frame the last run put into a placeholder, in order

vars == <<query, typed, history, conn, pc, trace, tbl, df_base, df_agg, steps,
          code_ph, table_ph, rendered>>

(* ------------------------------ bounds -------------------------------- *)

\* Most fragments typed into the editor in a session.
MaxTyped == 3

\* Most rows of the extra table a file-based database holds, and of the
\* query's own result.
MaxRows == 1

\* Columns of the extra table a file-based database holds.
CourseCols == 2

\* Longest query history the session is driven to.
MaxHistory == 2

(* ----------------------------- lexical -------------------------------- *)

\* Python's None, and its rendering by an f-string.
None == "None"

Whitespace == {" ", "\n"}

Punctuation == {"(", ")", "*", ";", ","}

IsSpace(t) == t \in Whitespace

\* \w+ : a whole word token.
IsWord(t) == t \notin Whitespace /\ t \notin Punctuation

\* str.upper / re.IGNORECASE, on the words the editor can produce.
Upper(t) ==
    CASE t = "select" -> "SELECT"
      [] t = "from"   -> "FROM"
      [] t = "avg"    -> "AVG"
      [] t = "as"     -> "AS"
      [] t = "by"     -> "BY"
      [] t = "group"  -> "GROUP"
      [] OTHER        -> t

\* str.lstrip on whitespace.
RECURSIVE LStrip(_)
LStrip(s) ==
    IF s # <<>> /\ IsSpace(Head(s)) THEN LStrip(Tail(s)) ELSE s

\* str.rstrip on whitespace.
RECURSIVE RStrip(_)
RStrip(s) ==
    IF s # <<>> /\ IsSpace(s[Len(s)]) THEN RStrip(SubSeq(s, 1, Len(s) - 1)) ELSE s

\* str.strip()
Strip(s) == RStrip(LStrip(s))

\* str.split('\n'): never empty, "" splits to [""].
RECURSIVE SplitLines(_)
SplitLines(s) ==
    IF \E i \in 1..Len(s) : s[i] = "\n"
    THEN LET i == CHOOSE k \in 1..Len(s) :
                      s[k] = "\n" /\ \A j \in 1..(k - 1) : s[j] # "\n"
         IN  <<SubSeq(s, 1, i - 1)>> \o SplitLines(SubSeq(s, i + 1, Len(s)))
    ELSE <<s>>

\* A keyword pattern (upper-case tokens) matches s at position i, ignoring case.
MatchesAt(pat, s, i) ==
    /\ i >= 1
    /\ i + Len(pat) - 1 <= Len(s)
    /\ \A k \in 1..Len(pat) : Upper(s[i + k - 1]) = pat[k]

\* re.search(rf'\b{kw}\b', line, flags=re.IGNORECASE)
re_search(kw, line) == \E i \in 1..Len(line) : MatchesAt(kw, line, i)

\* First position >= j of s that holds no whitespace (Len(s)+1 when none): \s*
RECURSIVE SkipSpaces(_, _)
SkipSpaces(s, j) ==
    IF j <= Len(s) /\ IsSpace(s[j]) THEN SkipSpaces(s, j + 1) ELSE j

(* ----------------------- generate_execution_trace --------------------- *)

\* The keyword list of the per-line scan, in the order the loop tries them.
ActivityKeywords ==
    << <<"SELECT">>, <<"FROM">>, <<"WHERE">>, <<"JOIN">>,
       <<"GROUP", " ", "BY">>, <<"ORDER", " ", "BY">>,
       <<"COUNT">>, <<"SUM">>, <<"AVG">>, <<"MIN">>, <<"MAX">> >>

AggFns == {"AVG", "SUM", "COUNT", "MIN", "MAX"}

ClauseEvent(idx) == [type |-> "clause", line |-> idx]

CellEvent(mode, i, j) == [type |-> "cell", mode |-> mode, row |-> i, col |-> j]

CompleteEvent == [type |-> "complete"]

\* The inner loop over keywords from the k-th on, without its break.
RECURSIVE KeywordLoopNoBreak(_, _, _)
KeywordLoopNoBreak(idx, line, k) ==
    IF k > Len(ActivityKeywords) THEN <<>>
    ELSE IF re_search(ActivityKeywords[k], line)
         THEN <<ClauseEvent(idx)>> \o KeywordLoopNoBreak(idx, line, k + 1)
         ELSE KeywordLoopNoBreak(idx, line, k + 1)

\* The inner loop over keywords from the k-th on: the first match appends one
\* event and breaks.
RECURSIVE KeywordLoop(_, _, _)
KeywordLoop(idx, line, k) ==
    IF k > Len(ActivityKeywords) THEN <<>>
    ELSE IF re_search(ActivityKeywords[k], line)
         THEN <<ClauseEvent(idx)>>
         ELSE KeywordLoop(idx, line, k + 1)

\* The outer loop: enumerate(lines), from the (0-based) idx-th line on.
RECURSIVE ClauseEvents(_, _)
ClauseEvents(lines, idx) ==
    IF idx >= Len(lines) THEN <<>>
    ELSE KeywordLoop(idx, lines[idx + 1], 1) \o ClauseEvents(lines, idx + 1)

NoMatch == [matched |-> FALSE]

\* \s+FROM\s+(\w+) at position j of q, j being the first whitespace.
FromTail(q, j, fn, col) ==
    LET f == SkipSpaces(q, j)
        t == SkipSpaces(q, f + 1)
    IN  IF /\ j <= Len(q) /\ IsSpace(q[j])
           /\ f <= Len(q) /\ Upper(q[f]) = "FROM"
           /\ f + 1 <= Len(q) /\ IsSpace(q[f + 1])
           /\ t <= Len(q) /\ IsWord(q[t])
        THEN [matched |-> TRUE, fn |-> fn, col |-> col, tbl |-> q[t], start |-> 0]
        ELSE NoMatch

\* The aggregate pattern anchored at position i:
\* \b(AVG|SUM|COUNT|MIN|MAX)\((\w+)\)(?:\s+AS\s+\w+)?\s+FROM\s+(\w+)
AggMatchAt(q, i) ==
    IF /\ i + 4 <= Len(q)
       /\ Upper(q[i]) \in AggFns
       /\ q[i + 1] = "("
       /\ IsWord(q[i + 2])
       /\ q[i + 3] = ")"
       /\ IsSpace(q[i + 4])
    THEN LET a   == SkipSpaces(q, i + 4)
             w   == SkipSpaces(q, a + 1)
             fn  == Upper(q[i])
             col == q[i + 2]
         IN  IF /\ a <= Len(q) /\ Upper(q[a]) = "AS"
                /\ a + 1 <= Len(q) /\ IsSpace(q[a + 1])
                /\ w <= Len(q) /\ IsWord(q[w])
                /\ FromTail(q, w + 1, fn, col).matched
             THEN FromTail(q, w + 1, fn, col)
             ELSE FromTail(q, i + 4, fn, col)
    ELSE NoMatch

\* re.search of the aggregate pattern: the leftmost match from position i on.
RECURSIVE AggSearch(_, _)
AggSearch(q, i) ==
    IF i > Len(q) THEN NoMatch
    ELSE IF AggMatchAt(q, i).matched
         THEN [AggMatchAt(q, i) EXCEPT !.start = i]
         ELSE AggSearch(q, i + 1)

\* re.search(r'\bFROM\s+(\w+)'): the leftmost match from position i on; its
\* group(1), or None.
RECURSIVE FromSearch(_, _)
FromSearch(q, i) ==
    IF i > Len(q) THEN None
    ELSE LET t == SkipSpaces(q, i + 1)
         IN  IF /\ Upper(q[i]) = "FROM"
                /\ i + 1 <= Len(q) /\ IsSpace(q[i + 1])
                /\ t <= Len(q) /\ IsWord(q[t])
             THEN q[t]
             ELSE FromSearch(q, i + 1)

\* The table whose rows are read, taken from the first FROM in every case.
BaseTableFirstFrom(q) == FromSearch(q, 1)

\* The table whose rows are read: the aggregate match's, else the first FROM's.
BaseTable(q) ==
    LET m == AggSearch(q, 1)
    IN  IF m.matched THEN m.tbl ELSE FromSearch(q, 1)

\* The cells of one row, columns counted from 1.
RowCellsOneBased(i, ncols) == [j \in 1..ncols |-> CellEvent("base", i, j)]

\* The cells of one row: for j in range(len(row)).
RowCells(i, ncols) == [j \in 1..ncols |-> CellEvent("base", i, j - 1)]

\* for i, row in enumerate(df_base.values.tolist()), from the i-th row on.
RECURSIVE BaseCells(_, _)
BaseCells(df, i) ==
    IF i >= df.rows THEN <<>>
    ELSE RowCells(i, df.cols) \o BaseCells(df, i + 1)

\* The aggregate's result cell, appended whether or not one was detected.
AggCellsAlways(m) == <<CellEvent("agg", 0, 0)>>

\* The aggregate's final result cell, when an aggregate was detected.
AggCells(m) == IF m.matched THEN <<CellEvent("agg", 0, 0)>> ELSE <<>>

\* The events with the aggregate cell appended before the base cells.
AssembleTraceAggFirst(clauses, base, agg) ==
    clauses \o agg \o base \o <<CompleteEvent>>

\* The events in the order they are appended.
AssembleTrace(clauses, base, agg) == clauses \o base \o agg \o <<CompleteEvent>>

\* A result set: only its shape decides the trace.
DataFrame(r, c) == [kind |-> "df", rows |-> r, cols |-> c]

\* What a database call ends in when it raises.
Raised == [kind |-> "raise"]

\* df_agg = None
NoneDf == [kind |-> "None"]

\* pd.read_sql_query(f"SELECT * FROM {tbl}", conn): the table's contents, or an
\* exception when the database has no such table.
ReadTable(c, t) == IF t \in DOMAIN c THEN c[t] ELSE Raised

\* The lines of the query, split without stripping it first.
QueryLinesUnstripped(q) == SplitLines(q)

\* lines = query.strip().split('\n')
QueryLines(q) == SplitLines(Strip(q))

\* generate_execution_trace(query, conn).  full is what the database answers to
\* the query itself (a result set, or Raised).
generate_execution_trace(q, c, full) ==
    LET lines == QueryLines(q)
        m     == AggSearch(q, 1)
        t     == BaseTable(q)
        base  == ReadTable(c, t)
    IN  IF base.kind = "raise" \/ (m.matched /\ full.kind = "raise")
        THEN [raised |-> TRUE, tbl |-> t, trace |-> <<>>,
              df_base |-> NoneDf, df_agg |-> NoneDf]
        ELSE [raised |-> FALSE, tbl |-> t,
              trace |-> AssembleTrace(ClauseEvents(lines, 0), BaseCells(base, 0),
                                      AggCells(m)),
              df_base |-> base,
              df_agg |-> IF m.matched THEN full ELSE NoneDf]

(* --------------------------- parse_sql_steps -------------------------- *)

\* The alternatives of the split pattern, in the order the pattern lists them.
ClauseKeywords ==
    << <<"SELECT">>, <<"FROM">>, <<"WHERE">>, <<"JOIN">>,
       <<"GROUP", " ", "BY">>, <<"ORDER", " ", "BY">> >>

\* The first alternative of the split pattern that matches at position i, or 0.
ClauseAt(q, i) ==
    IF \E k \in 1..Len(ClauseKeywords) : MatchesAt(ClauseKeywords[k], q, i)
    THEN CHOOSE k \in 1..Len(ClauseKeywords) :
             /\ MatchesAt(ClauseKeywords[k], q, i)
             /\ \A j \in 1..(k - 1) : ~MatchesAt(ClauseKeywords[j], q, i)
    ELSE 0

\* re.split with one capturing group: text, keyword, text, keyword, ..., text.
\* s is where the current text part starts, i the scan position.
RECURSIVE re_split(_, _, _)
re_split(q, s, i) ==
    IF i > Len(q) THEN <<SubSeq(q, s, Len(q))>>
    ELSE IF ClauseAt(q, i) # 0
         THEN LET n == Len(ClauseKeywords[ClauseAt(q, i)])
              IN  <<SubSeq(q, s, i - 1), SubSeq(q, i, i + n - 1)>>
                      \o re_split(q, i + n, i + n)
         ELSE re_split(q, s, i + 1)

\* str.upper on every token.
UpperSeq(s) == [k \in 1..Len(s) |-> Upper(s[k])]

\* str.rstrip(';')
RECURSIVE RStripSemi(_)
RStripSemi(s) ==
    IF s # <<>> /\ s[Len(s)] = ";" THEN RStripSemi(SubSeq(s, 1, Len(s) - 1)) ELSE s

\* desc = f"{label} → {content}", kept as its two parts.
Describe(clause, content) ==
    [label |-> CASE clause = <<"SELECT">> -> <<"Select columns">>
                 [] clause = <<"FROM">>   -> <<"Load table">>
                 [] clause = <<"WHERE">>  -> <<"Apply filter">>
                 [] OTHER                 -> clause,
     content |-> content]

\* A loop bound one short.
StepsLoopEndShort(parts) == Len(parts) - 2

\* The loop bound of the steps loop: while i < len(parts) - 1.
StepsLoopEnd(parts) == Len(parts) - 1

\* The steps loop from (0-based) index i on: i += 2 each round.
RECURSIVE StepsLoop(_, _)
StepsLoop(parts, i) ==
    IF ~(i < StepsLoopEnd(parts)) THEN <<>>
    ELSE <<Describe(UpperSeq(Strip(parts[i + 1])),
                    RStripSemi(Strip(parts[i + 2])))>>
             \o StepsLoop(parts, i + 2)

parse_sql_steps(q) == StepsLoop(re_split(q, 1, 1), 1)

(* --------------------------- the environment -------------------------- *)

\* Rows and columns of the sample table the script creates and fills.
StudentRows == 3

StudentCols == 3

\* The in-memory database: the sample table only.
InMemoryDb == ("students" :> DataFrame(StudentRows, StudentCols))

\* A file-based database may hold one more table, possibly empty.
FileDbs ==
    {InMemoryDb @@ ("courses" :> DataFrame(r, CourseCols)) : r \in 0..MaxRows}

Databases == {InMemoryDb} \cup FileDbs

\* What the database answers to the query itself: it may reject it, or return
\* any result set.
QueryResults ==
    {Raised} \cup {DataFrame(r, c) : r \in 0..MaxRows, c \in {1, CourseCols}}

\* The query itself is only run when the aggregate pattern matched.
FullResults(q) == IF AggSearch(q, 1).matched THEN QueryResults ELSE {NoneDf}

\* The editor's initial content: "SELECT * FROM students;"
DefaultQuery == <<"SELECT", " ", "*", " ", "FROM", " ", "students", ";">>

\* The pieces of text the user types into the editor.
Fragments ==
    { <<"SELECT", " ">>,
      <<"\n">>,
      <<"FROM", " ", "students">>,
      <<"from", "\n", "courses">>,
      <<"AVG", "(", "grade", ")", " ">>,
      <<"AS", " ", "a", " ">>,
      <<"COUNT", "(", "*", ")", " ">>,
      <<"GROUP", " ", "BY", " ">> }

\* Typing f after q keeps q's tokens: two words typed back to back would be
\* one longer word.
CanType(q, f) ==
    /\ typed < MaxTyped
    /\ ~(q # <<>> /\ IsWord(q[Len(q)]) /\ IsWord(f[1]))

\* st.empty(): a placeholder that shows nothing yet.
NoPlaceholder == [shown |-> "nothing"]

Init ==
    /\ query = DefaultQuery
    /\ typed = 0
    /\ conn = InMemoryDb
    /\ pc = "edit"
    /\ trace = <<>>
    /\ tbl = None
    /\ df_base = NoneDf
    /\ df_agg = NoneDf
    /\ steps = <<>>
    /\ history = <<>>
    /\ code_ph = NoPlaceholder
    /\ table_ph = NoPlaceholder
    /\ rendered = <<>>

\* The user may act: no call is under way, or the last run has ended.
Idle == pc \in {"edit", "complete", "failed"}

\* Any interaction reruns the script top to bottom: what the last run computed
\* and displayed is gone, the session state (query, history) is kept.
Rerun ==
    /\ pc' = "edit"
    /\ conn' = InMemoryDb
    /\ trace' = <<>>
    /\ tbl' = None
    /\ df_base' = NoneDf
    /\ df_agg' = NoneDf
    /\ code_ph' = NoPlaceholder
    /\ table_ph' = NoPlaceholder
    /\ rendered' = <<>>
    /\ UNCHANGED steps

\* The user types a fragment at the end of the editor's text.
TypeFragment(f) ==
    /\ Idle
    /\ CanType(query, f)
    /\ query' = query \o f
    /\ typed' = typed + 1
    /\ Rerun
    /\ UNCHANGED history

\* The user empties the editor.
ClearEditor ==
    /\ Idle
    /\ query # <<>>
    /\ query' = <<>>
    /\ Rerun
    /\ UNCHANGED <<typed, history>>

\* A script run connects to the database (whatever it holds by then) and
\* calls generate_execution_trace(query, conn): it returns or raises.
CallGenerateTrace ==
    /\ pc = "edit"
    /\ \E c \in Databases, full \in FullResults(query) :
       \E r \in {generate_execution_trace(query, c, full)} :
               /\ conn' = c
               /\ pc' = IF r.raised THEN "raised" ELSE "returned"
               /\ trace' = r.trace
               /\ tbl' = r.tbl
               /\ df_base' = r.df_base
               /\ df_agg' = r.df_agg
    /\ UNCHANGED <<query, typed, steps, history, code_ph, table_ph, rendered>>

\* A call of parse_sql_steps(query).
CallParseSteps ==
    /\ pc = "edit"
    /\ steps' = parse_sql_steps(query)
    /\ pc' = "parsed"
    /\ UNCHANGED <<query, typed, conn, trace, tbl, df_base, df_agg,
                   history, code_ph, table_ph, rendered>>

Next ==
    \/ \E f \in Fragments : TypeFragment(f)
    \/ ClearEditor
    \/ CallGenerateTrace
    \/ CallParseSteps

Spec == Init /\ [][Next]_vars

(* ----------------------- the Run Query handler ------------------------ *)

Range(h) == {h[i] : i \in 1..Len(h)}

\* An optional argument: <<>> for None, <<v>> for the value v.
Nothing == <<>>

Some(v) == <<v>>

\* render_query_code(query, highlight_line): the lines of the stripped query,
\* the line whose index equals highlight_line set off.
render_query_code(q, highlight_line) ==
    LET lines == QueryLines(q)
    IN  [shown |-> "code",
         lines |-> lines,
         highlighted |-> {i \in 0..(Len(lines) - 1) : Some(i) = highlight_line}]

\* render_table_html(df, highlight_row, highlight_col, highlight_class)
render_table_html(df, highlight_row, highlight_col, highlight_class) ==
    [shown |-> "table", df |-> df, row |-> highlight_row, col |-> highlight_col,
     class |-> highlight_class]

\* df = df_base if mode == 'base' else df_agg
EventDf(ev, base, agg) == IF ev.mode = "base" THEN base ELSE agg

\* One round of the animation loop: what it puts into which placeholder.
PlayEvent(ev, q, base, agg) ==
    IF ev.type = "clause"
    THEN <<[ph |-> "code", html |-> render_query_code(q, Some(ev.line))]>>
    ELSE IF ev.type = "cell"
         THEN <<[ph |-> "table",
                 html |-> render_table_html(
                              EventDf(ev, base, agg), Some(ev.row), Some(ev.col),
                              Some(IF ev.mode = "base" THEN "base-highlight"
                                                       ELSE "agg-highlight"))]>>
         ELSE <<>>

\* for ev in trace, from the k-th event on.
RECURSIVE AnimationLoop(_, _, _, _, _)
AnimationLoop(tr, k, q, base, agg) ==
    IF k > Len(tr) THEN <<>>
    ELSE PlayEvent(tr[k], q, base, agg) \o AnimationLoop(tr, k + 1, q, base, agg)

\* The final result set taken to be the base result set in every case.
FinalDfBase(base, agg) == base

\* final_df = df_agg if df_agg is not None else df_base
FinalDf(base, agg) == IF agg.kind # "None" THEN agg ELSE base

\* The final display of code and table.
FinalDisplay(q, base, agg) ==
    << [ph |-> "code", html |-> render_query_code(q, Nothing)],
       [ph |-> "table",
        html |-> render_table_html(FinalDf(base, agg), Nothing, Nothing, Nothing)] >>

\* What a placeholder shows after the frames fs: the last one put into it.
Shows(fs, ph) ==
    LET K == {k \in 1..Len(fs) : fs[k].ph = ph}
    IN  IF K = {} THEN NoPlaceholder
        ELSE fs[CHOOSE k \in K : \A j \in K : j <= k].html

\* Save to history, always appending.
SaveToHistoryAlways(h, q) == Append(h, q)

\* Save to history (avoid duplicates).
SaveToHistory(h, q) == IF q \notin Range(h) THEN Append(h, q) ELSE h

\* The Run Query handler: save the query, build the trace, play it, show the
\* final display.  An exception of the trace builder ends the run.
RunQuery ==
    /\ Idle
    /\ Len(history) < MaxHistory \/ query \in Range(history)
    /\ history' = SaveToHistory(history, query)
    /\ \E c \in Databases, full \in FullResults(query) :
       \E r \in {generate_execution_trace(query, c, full)} :
       \E fs \in {AnimationLoop(r.trace, 1, query, r.df_base, r.df_agg)
                      \o FinalDisplay(query, r.df_base, r.df_agg)} :
               /\ conn' = c
               /\ trace' = r.trace
               /\ tbl' = r.tbl
               /\ df_base' = r.df_base
               /\ df_agg' = r.df_agg
               /\ IF r.raised
                  THEN /\ pc' = "failed"
                       /\ rendered' = <<>>
                       /\ code_ph' = NoPlaceholder
                       /\ table_ph' = NoPlaceholder
                  ELSE /\ pc' = "complete"
                       /\ rendered' = fs
                       /\ code_ph' = Shows(fs, "code")
                       /\ table_ph' = Shows(fs, "table")
    /\ UNCHANGED <<query, typed, steps>>

\* The i-th Load into Editor button of the history panel, which lists the most
\* recent query first.
LoadIntoEditor(i) ==
    /\ Idle
    /\ i \in 1..Len(history)
    /\ query' = history[Len(history) - i + 1]
    /\ Rerun
    /\ UNCHANGED <<typed, history>>

\* A whole aggregate line, as the user of a session types it.
AggregateLine ==
    <<"\n", "AVG", "(", "grade", ")", " ", "from", "\n", "courses">>

SessionNext ==
    \/ TypeFragment(AggregateLine)
    \/ \E i \in 1..MaxHistory : LoadIntoEditor(i)
    \/ RunQuery

\* A session of the application: editing, running, loading past queries.
SessionSpec == Init /\ [][SessionNext]_vars

(* ------------------- vocabulary of the properties --------------------- *)

IsClause(e) == e.type = "clause"

IsBaseCell(e) == e.type = "cell" /\ e.mode = "base"

IsAggCell(e) == e.type = "cell" /\ e.mode = "agg"

IsComplete(e) == e.type = "complete"

\* The place of an event's kind in the order clause, base, aggregate, completion.
Phase(e) ==
    CASE IsClause(e)   -> 1
      [] IsBaseCell(e) -> 2
      [] IsAggCell(e)  -> 3
      [] OTHER         -> 4

Returned == pc = "returned"

\* Positions lo..hi of q hold whitespace only, and at least one.
SpaceRun(q, lo, hi) == lo <= hi /\ \A k \in lo..hi : IsSpace(q[k])

\* q[f] is FROM, followed by whitespace and then the word q[t].
FromNames(q, f, t) ==
    /\ f >= 1 /\ t <= Len(q)
    /\ Upper(q[f]) = "FROM"
    /\ SpaceRun(q, f + 1, t - 1)
    /\ IsWord(q[t])

\* The aggregate pattern AGGFN(column) [AS alias] FROM table lies at position i
\* of q with its table name at position t.
AggPatternAt(q, i, t) ==
    /\ i + 3 <= Len(q)
    /\ Upper(q[i]) \in {"COUNT", "SUM", "AVG", "MIN", "MAX"}
    /\ q[i + 1] = "(" /\ IsWord(q[i + 2]) /\ q[i + 3] = ")"
    /\ \E f \in (i + 5)..Len(q) :
           /\ FromNames(q, f, t)
           /\ \/ SpaceRun(q, i + 4, f - 1)
              \/ \E a \in (i + 5)..(f - 1), w \in (i + 5)..(f - 1) :
                     /\ SpaceRun(q, i + 4, a - 1)
                     /\ Upper(q[a]) = "AS"
                     /\ SpaceRun(q, a + 1, w - 1)
                     /\ IsWord(q[w])
                     /\ SpaceRun(q, w + 1, f - 1)

MatchesAggPattern(q) ==
    \E i \in 1..Len(q), t \in 1..Len(q) : AggPatternAt(q, i, t)

\* The table name of the leftmost occurrence of the aggregate pattern.
AggPatternTable(q) ==
    LET i == CHOOSE k \in 1..Len(q) :
                 /\ \E t \in 1..Len(q) : AggPatternAt(q, k, t)
                 /\ \A j \in 1..(k - 1) : \A t \in 1..Len(q) : ~AggPatternAt(q, j, t)
    IN  q[CHOOSE t \in 1..Len(q) : AggPatternAt(q, i, t)]

\* The query has a FROM that names a table.
HasFromTable(q) == \E f \in 1..Len(q), t \in 1..Len(q) : FromNames(q, f, t)

\* The table named by the first FROM that names one.
FirstFromTable(q) ==
    LET f == CHOOSE k \in 1..Len(q) :
                 /\ \E t \in 1..Len(q) : FromNames(q, k, t)
                 /\ \A j \in 1..(k - 1) : \A t \in 1..Len(q) : ~FromNames(q, j, t)
    IN  q[CHOOSE t \in 1..Len(q) : FromNames(q, f, t)]

\* The word FROM occurs nowhere in the query.
NoFrom(q) == \A i \in 1..Len(q) : Upper(q[i]) # "FROM"

\* The activity keywords that occur in a line, as whole words, ignoring case.
KeywordsIn(line) ==
    {k \in 1..Len(ActivityKeywords) :
         \E i \in 1..Len(line) : MatchesAt(ActivityKeywords[k], line, i)}

\* The line indices the trace's clause events carry.
ClauseLines == {trace[k].line : k \in {n \in 1..Len(trace) : IsClause(trace[n])}}

\* The clause events carry exactly the 0-based indices of the lines of this
\* list that contain an activity keyword.
MarksKeywordLines(lines) ==
    ClauseLines = {i \in 0..(Len(lines) - 1) : KeywordsIn(lines[i + 1]) # {}}

\* The positions of q at which a clause keyword of the descriptive split starts.
ClausePositions(q) ==
    {i \in 1..Len(q) :
         \E k \in 1..Len(ClauseKeywords) : MatchesAt(ClauseKeywords[k], q, i)}

\* The clause keyword that starts at position p, in upper case.
ClauseKeywordAt(q, p) ==
    ClauseKeywords[CHOOSE k \in 1..Len(ClauseKeywords) :
                       MatchesAt(ClauseKeywords[k], q, p)]

(* ---------------------------- the properties -------------------------- *)

\* C1: a returned trace is clause events, then base-cell events, then
\* aggregate-cell events, then exactly one completion event, which is last; it
\* is never empty.
C1_TraceShape ==
    Returned =>
        /\ Len(trace) >= 1
        /\ IsComplete(trace[Len(trace)])
        /\ \A i \in 1..(Len(trace) - 1) : ~IsComplete(trace[i])
        /\ \A i \in 1..Len(trace), j \in 1..Len(trace) :
               i < j => Phase(trace[i]) <= Phase(trace[j])

\* A trace with events of all four kinds has been returned.
C1_Witness ==
    /\ Returned
    /\ \E i \in 1..Len(trace) : IsClause(trace[i])
    /\ \E i \in 1..Len(trace) : IsBaseCell(trace[i])
    /\ \E i \in 1..Len(trace) : IsAggCell(trace[i])

\* C2: a base result set of R rows and C columns gives exactly R*C base-cell
\* events, the k-th (from 0) with row k \div C and col k % C, whether or not an
\* aggregate was detected.
C2_BaseCellsRowMajor ==
    Returned =>
        LET B == SelectSeq(trace, IsBaseCell)
        IN  /\ Len(B) = df_base.rows * df_base.cols
            /\ \A k \in 0..(Len(B) - 1) :
                   /\ B[k + 1].row = k \div df_base.cols
                   /\ B[k + 1].col = k % df_base.cols

\* A table of several rows and columns has been walked with an aggregate
\* detected.
C2_Witness ==
    /\ Returned
    /\ df_agg.kind = "df"
    /\ df_base.rows >= 2
    /\ df_base.cols >= 2

\* C3: a query that matches the aggregate pattern gives exactly one
\* aggregate-cell event, at row 0 and col 0, after every base-cell event and
\* immediately before the completion event; any other query gives none.
C3_OneAggregateCell ==
    Returned =>
        LET A == {k \in 1..Len(trace) : IsAggCell(trace[k])}
        IN  IF MatchesAggPattern(query)
            THEN /\ A = {Len(trace) - 1}
                 /\ trace[Len(trace) - 1] = CellEvent("agg", 0, 0)
                 /\ \A k \in 1..Len(trace) : IsBaseCell(trace[k]) => k < Len(trace) - 1
            ELSE A = {}

\* A query with two aggregate invocations that matches the pattern has been
\* traced over a non-empty table.
C3_Witness ==
    /\ Returned
    /\ MatchesAggPattern(query)
    /\ Cardinality({i \in 1..Len(query) : Upper(query[i]) \in AggFns}) >= 2
    /\ \E k \in 1..Len(trace) : IsBaseCell(trace[k])

\* C4: the clause events carry strictly ascending line indices, so no line has
\* two clause events even when it holds several keywords.
C4_ClauseLinesAscending ==
    Returned =>
        \A i \in 1..Len(trace), j \in 1..Len(trace) :
            (i < j /\ IsClause(trace[i]) /\ IsClause(trace[j]))
                => trace[i].line < trace[j].line

\* A query of several keyword lines, one of them with several keywords, has
\* been traced.
C4_Witness ==
    /\ Returned
    /\ Cardinality(ClauseLines) >= 2
    /\ \E i \in 1..Len(SplitLines(Strip(query))) :
           Cardinality(KeywordsIn(SplitLines(Strip(query))[i])) >= 2

\* C5: with no FROM in the query the call does not raise: it returns a trace
\* with no base-cell event that ends in the completion event.
C5_NoFromReturns ==
    (pc \in {"returned", "raised"} /\ NoFrom(query)) =>
        /\ Returned
        /\ \A k \in 1..Len(trace) : ~IsBaseCell(trace[k])
        /\ Len(trace) >= 1
        /\ IsComplete(trace[Len(trace)])

\* C6 (as claimed): the clause events carry exactly the indices, in the query
\* text split on newlines, of the lines that contain an activity keyword.
C6_RawLineIndex == Returned => MarksKeywordLines(SplitLines(query))

\* C6 (amended): the clause events carry exactly the indices, in the query text
\* stripped of leading and trailing whitespace and then split on newlines, of
\* the lines that contain an activity keyword.
C6_StrippedLineIndex == Returned => MarksKeywordLines(SplitLines(Strip(query)))

\* A query whose first line is blank has been traced and has a clause event.
C6_Witness ==
    /\ Returned
    /\ query # <<>>
    /\ query[1] = "\n"
    /\ ClauseLines # {}

\* C7 (as claimed): for a query with a FROM clause the table that is walked is
\* the one the first FROM names.
C7_FirstFromTable ==
    (Returned /\ HasFromTable(query)) =>
        /\ tbl = FirstFromTable(query)
        /\ df_base = conn[tbl]

\* C7 (amended): the table that is walked is the one named by the leftmost
\* occurrence of the aggregate pattern when the query has one, and otherwise
\* the one the first FROM names; the base result set is that table's contents.
C7_AggregateOrFirstFromTable ==
    (Returned /\ HasFromTable(query)) =>
        /\ tbl = IF MatchesAggPattern(query) THEN AggPatternTable(query)
                                             ELSE FirstFromTable(query)
        /\ df_base = conn[tbl]

\* A query whose aggregate pattern names another table than its first FROM has
\* been traced.
C7_Witness ==
    /\ Returned
    /\ MatchesAggPattern(query)
    /\ AggPatternTable(query) # FirstFromTable(query)
    /\ tbl = AggPatternTable(query)

\* C8 (as claimed): the descriptive split has at most one step per clause kind.
C8_OneStepPerKind ==
    pc = "parsed" =>
        \A i \in 1..Len(steps), j \in 1..Len(steps) :
            i < j => steps[i].label # steps[j].label

\* C8 (amended): the descriptive split has one step per occurrence of a clause
\* keyword, in the order of the occurrences, so a kind that occurs several
\* times has several steps.
C8_OneStepPerOccurrence ==
    pc = "parsed" =>
        LET P == ClausePositions(query)
        IN  /\ Len(steps) = Cardinality(P)
            /\ \A p \in P :
                   steps[Cardinality({i \in P : i <= p})].label
                       = Describe(ClauseKeywordAt(query, p), <<>>).label

\* A query in which a clause keyword occurs twice has been split.
C8_Witness ==
    /\ pc = "parsed"
    /\ \E i \in 1..Len(steps), j \in 1..Len(steps) :
           i < j /\ steps[i].label = steps[j].label

\* The frame shows the event: the clause's line set off in the query, or the
\* cell's row and column set off in the result set the event is about, which
\* is present.
FrameShows(frame, ev) ==
    IF IsClause(ev)
    THEN /\ frame.ph = "code"
         /\ frame.html.lines = SplitLines(Strip(query))
         /\ frame.html.highlighted = {ev.line}
    ELSE /\ frame.ph = "table"
         /\ frame.html.df = (IF IsAggCell(ev) THEN df_agg ELSE df_base)
         /\ frame.html.df.kind = "df"
         /\ frame.html.row = <<ev.row>>
         /\ frame.html.col = <<ev.col>>

\* C9: a completed run has rendered the events in trace order, then the final
\* display: the query with no line set off, and with nothing set off the
\* aggregate result set if an aggregate was detected, else the base result set.
C9_PlaybackOrderAndFinal ==
    pc = "complete" =>
        /\ Len(rendered) = Len(trace) + 1
        /\ \A k \in 1..(Len(trace) - 1) : FrameShows(rendered[k], trace[k])
        /\ code_ph = rendered[Len(trace)].html
        /\ code_ph = [shown |-> "code", lines |-> SplitLines(Strip(query)),
                      highlighted |-> {}]
        /\ table_ph = rendered[Len(trace) + 1].html
        /\ table_ph = [shown |-> "table",
                       df |-> IF MatchesAggPattern(query) THEN df_agg ELSE df_base,
                       row |-> <<>>, col |-> <<>>, class |-> <<>>]
        /\ table_ph.df.kind = "df"

\* A run with clause, base-cell and aggregate-cell events has completed.
C9_Witness ==
    /\ pc = "complete"
    /\ \E k \in 1..Len(trace) : IsClause(trace[k])
    /\ \E k \in 1..Len(trace) : IsBaseCell(trace[k])
    /\ \E k \in 1..Len(trace) : IsAggCell(trace[k])
    /\ df_agg # df_base

NoDuplicates(h) == \A i \in 1..Len(h), j \in 1..Len(h) : i < j => h[i] # h[j]

\* A step that ends a run of the Run Query handler.
RunStep == pc' \in {"complete", "failed"} /\ vars' # vars

\* C10: the history never holds a query twice; a run of a query that is not in
\* it appends the query at the end, a run of a query that is in it and every
\* other action leave it unchanged.
C10_HistoryAppendOnly ==
    [][/\ NoDuplicates(history')
       /\ IF RunStep /\ query \notin Range(history)
          THEN history' = Append(history, query)
          ELSE history' = history]_vars

\* A query loaded from the history has been run again, with a later query in
\* the history.
C10_Witness ==
    /\ pc \in {"complete", "failed"}
    /\ Len(history) >= 2
    /\ query = history[1]

====
